---------------------------- MODULE Spec2Model ----------------------------
(***************************************************************************)
(* The discretisation pipeline  sortlastcol | argmin | Pipe3.              *)
(*                                                                         *)
(*   sortlastcol  sorts the rows of a table by their last column,          *)
(*   argmin       appends to every row the upper bound of its partition,   *)
(*   Pipe3        replaces that bound by the label of the row's band.      *)
(*                                                                         *)
(* A row is the pair <<id, dom>>: one passthrough field and the numeric    *)
(* target.  A line of text is the sequence of its comma-separated fields.  *)
(* Array indices are those of the source (0-based); At(s, k) reads them.   *)
(*                                                                         *)
(* JavaScript numbers: counts, indices and target values are integers and  *)
(* are exact.  mean and M2 are exact rationals <<num, den>>.  A standard   *)
(* deviation, minRise and a split cost are fixed-point numbers with Scale  *)
(* units to 1, rounded down; minRise, a product of two doubles, can lie    *)
(* below its exact value.  A double that rounding can make negative        *)
(* where the exact value is 0 (M2 after a removal) has both square roots   *)
(* the build can produce: 0 and NaN.  Two costs that differ by no more     *)
(* than the rounding compare either way.                                   *)
(***************************************************************************)
EXTENDS Integers, Sequences, FiniteSets, TLC

\* ------------------------------------------------------------------ bounds
MaxRows == 9
MaxVal == 2
Far == 8
MaxSort == 4
MaxKey == 2

\* ------------------------------------------------------- number modelling
Scale == 1000
NaN == -1
Undefined == -2
Huge == 1000000000

At(s, k) == s[k + 1]

RECURSIVE GCD(_, _)
GCD(a, b) == IF b = 0 THEN a ELSE GCD(b, a % b)

Abs(x) == IF x < 0 THEN -x ELSE x

\* the rational n/d in lowest terms, d > 0
Rat(n, d) ==
    LET g == GCD(Abs(n), Abs(d))
        s == IF d < 0 THEN -1 ELSE 1
    IN  <<(s * n) \div g, (s * d) \div g>>

RAdd(p, q) == Rat(p[1] * q[2] + q[1] * p[2], p[2] * q[2])
RSub(p, q) == Rat(p[1] * q[2] - q[1] * p[2], p[2] * q[2])
RMul(p, q) == Rat(p[1] * q[1], p[2] * q[2])
RDivInt(p, k) == Rat(p[1], p[2] * k)
RInt(k) == <<k, 1>>

RECURSIVE IsqrtBetween(_, _, _)
IsqrtBetween(v, lo, hi) ==
    IF lo >= hi THEN lo
    ELSE LET mid == (lo + hi + 1) \div 2
         IN  IF mid * mid <= v THEN IsqrtBetween(v, mid, hi)
             ELSE IsqrtBetween(v, lo, mid - 1)

\* floor(sqrt(v)) for an integer v >= 0
Isqrt(v) == IsqrtBetween(v, 0, IF v < 46340 THEN v ELSE 46340)

\* Math.sqrt of the rational q, in fixed point; NaN for a negative q
SqrtFix(q) ==
    IF q[1] < 0 THEN NaN ELSE Isqrt((Scale * Scale * q[1]) \div q[2])

\* a < b on numbers one of which may be NaN (every comparison with NaN is false)
Less(a, b) == a # NaN /\ b # NaN /\ a < b

\* two fixed-point numbers so close that their order as doubles is not known
Ulp == 2
Close(a, b) == a # NaN /\ b # NaN /\ a - b <= Ulp /\ b - a <= Ulp

\* a < b on two doubles known in fixed point: lt when they are Close
LessRounded(a, b, lt) == IF Close(a, b) THEN lt ELSE Less(a, b)

\* ------------------------------------------------------------------ state
VARIABLES
    rows,       \* argmin: the input rows, sorted by dom
    pc2,        \* argmin: the statement it is at
    i,          \* calcSplits: loop index of the first loop
    cut,        \* calcSplits: var cut
    prevCut,    \* calcSplits: var prevCut
    minRise,    \* argmin: var minRise, set by initValues
    out2,       \* argmin: lines written to stdout
    pc3,        \* Pipe3: the statement it is at
    data,       \* Pipe3: table.data
    low,        \* Pipe3: parameter low of the running call of cuts
    depth,      \* Pipe3: number of "|.." appended to pre, up to MaxDepth
    err3,       \* Pipe3: lines written to stderr, the trace up to MaxDepth
    out3,       \* Pipe3: lines written to stdout
    vals,       \* sortlastcol: the array being sorted
    input,      \* sortlastcol: the rows as read
    args,       \* sortlastcol: process.argv.slice(2)
    spc,        \* sortlastcol: the statement it is at
    sout,       \* sortlastcol: lines written to stdout
    serr,       \* sortlastcol: lines written to stderr
    accum,      \* an accumulator as numInc and numDec leave it
    held,       \* how often each value was passed to numInc and not yet to numDec
    lastOp      \* the function last called on the accumulator

vars == <<rows, pc2, i, cut, prevCut, minRise, out2,
          pc3, data, low, depth, err3, out3,
          vals, input, args, spc, sout, serr, accum, held, lastOp>>

pipeVars == <<rows, pc2, i, cut, prevCut, minRise, out2,
              pc3, data, low, depth, err3, out3>>
pipe3Vars == <<pc3, data, low, depth, err3, out3>>
sortVars == <<vals, input, args, spc, sout, serr>>
accVars == <<accum, held, lastOp>>

\* ------------------------------------------------------------------- text
\* A field of a line is a text: a sequence of tokens, each the decimal form
\* of a number, a word, or the two dots of a band label.
NumTok(k) == [t |-> "num", n |-> k, s |-> ""]
WordTok(w) == [t |-> "word", n |-> 0, s |-> w]
Dots == <<[t |-> "dots", n |-> 0, s |-> ".."]>>

\* String( k ) of a number k
Str(k) == <<NumTok(k)>>
Word(w) == <<WordTok(w)>>

\* Number( text ): NaN unless the text is one numeric literal
Number(text) == IF Len(text) = 1 /\ text[1].t = "num" THEN text[1].n ELSE NaN

\* ------------------------------------------------------- argmin: globals
attributes == <<Word("id"), Word("dom")>>
numRows == Len(rows)
numCols == 2
lastCol == [k \in 1..Len(rows) |-> rows[k][numCols]]
COHEN == 3

\* -------------------------------------------------- argmin: accumulator
\* rounded: some mean or M2 computed so far is no binary fraction, so the
\* doubles mean and M2 carry a rounding error
NewAggr == [count |-> 0, mean |-> RInt(0), M2 |-> RInt(0), sd |-> 0,
            max |-> -Huge, min |-> Huge, rounded |-> FALSE]

RECURSIVE IsPowerOfTwo(_)
IsPowerOfTwo(d) == d = 1 \/ (d > 1 /\ d % 2 = 0 /\ IsPowerOfTwo(d \div 2))

Binary(q) == IsPowerOfTwo(q[2])

\* sd as set by numInc and numDec: Math.sqrt( M2 / ( count - 1 + 10**-32 ) ).
\* The addend 10**-32 is absorbed by count - 1 >= 1.  An M2 that is exactly 0
\* but carries a rounding error is a double just above or just below 0; neg
\* chooses the one below, whose square root is NaN.
SdOf(M2, count, rounded, neg) ==
    IF neg /\ rounded /\ M2 = RInt(0) THEN NaN
    ELSE SqrtFix(RDivInt(M2, count - 1))

\* numInc( aggr, value ); neg: the double M2 it leaves is below 0
numInc(aggr, value, neg) ==
    LET count == aggr.count + 1
        delta == RSub(RInt(value), aggr.mean)
        mean == RAdd(aggr.mean, RDivInt(delta, count))
        M2 == RAdd(aggr.M2, RMul(delta, RSub(RInt(value), mean)))
        rounded == aggr.rounded \/ ~Binary(mean) \/ ~Binary(M2)
    IN  [count |-> count, mean |-> mean, M2 |-> M2,
         max |-> IF value > aggr.max THEN value ELSE aggr.max,
         min |-> IF value < aggr.min THEN value ELSE aggr.min,
         sd |-> IF count >= 2 THEN SdOf(M2, count, rounded, neg) ELSE aggr.sd,
         rounded |-> rounded]

\* what neg can be: numInc adds a product that is not negative to M2, so
\* an M2 known not to be below 0 (sd is a number) stays so; an M2 below 0
\* either stays below 0 or is lifted to 0, and at count 1 sd does not tell
IncSigns(aggr) ==
    IF aggr.count >= 2 /\ aggr.sd # NaN THEN {FALSE} ELSE BOOLEAN

\* numDec taking M2 down by delta * delta, the mean left out of the product
numDecOldMean(aggr, value, neg) ==
    IF aggr.count = 1 THEN aggr
    ELSE LET count == aggr.count - 1
             delta == RSub(RInt(value), aggr.mean)
             mean == RSub(aggr.mean, RDivInt(delta, count))
             M2 == RSub(aggr.M2, RMul(delta, delta))
             rounded == aggr.rounded \/ ~Binary(mean) \/ ~Binary(M2)
         IN  [count |-> count, mean |-> mean, M2 |-> M2,
              max |-> aggr.max, min |-> aggr.min,
              sd |-> IF count >= 2 THEN SdOf(M2, count, rounded, neg)
                     ELSE aggr.sd,
              rounded |-> rounded]

\* numDec( aggr, value ); neg: the double M2 it leaves is below 0
numDec(aggr, value, neg) ==
    IF aggr.count = 1 THEN aggr
    ELSE LET count == aggr.count - 1
             delta == RSub(RInt(value), aggr.mean)
             mean == RSub(aggr.mean, RDivInt(delta, count))
             M2 == RSub(aggr.M2, RMul(delta, RSub(RInt(value), mean)))
             rounded == aggr.rounded \/ ~Binary(mean) \/ ~Binary(M2)
         IN  [count |-> count, mean |-> mean, M2 |-> M2,
              max |-> aggr.max, min |-> aggr.min,
              sd |-> IF count >= 2 THEN SdOf(M2, count, rounded, neg)
                     ELSE aggr.sd,
              rounded |-> rounded]

\* what neg can be: numDec takes a product that is not negative from M2, so
\* an M2 below 0 (sd is NaN) stays below 0
DecSigns(aggr) ==
    IF aggr.count >= 2 /\ aggr.sd = NaN THEN {TRUE} ELSE BOOLEAN

RECURSIVE getStdDevFrom(_, _, _, _)
getStdDevFrom(col, k, hi, aggr) ==
    IF k >= hi THEN aggr
    ELSE getStdDevFrom(col, k + 1, hi, numInc(aggr, At(col, k), FALSE))

getStdDev(col, lo, hi) == getStdDevFrom(col, lo, hi, NewAggr)

\* ------------------------------------------------------ argmin: initValues
minBinSizeOf(n) == Isqrt(n)
minBinSize == minBinSizeOf(numRows)

\* COHEN * totalStdDev, COHEN = 0.3: three tenths of the root of the
\* variance, rounded down once; 0 while sd is the initial 0.  The double
\* 0.3 is below three tenths and the double sd may be below the root, so
\* the product can lie below the exact value; that shows in fixed point
\* where the exact value is a whole number of units.  below: it does.
minRiseOf(col, below) ==
    LET total == getStdDev(col, 0, Len(col))
        variance == RDivInt(total.M2, total.count - 1)
        unit == (COHEN * Scale) \div 10
        square == unit * unit * variance[1]
        exact == Isqrt(square \div variance[2])
        whole == square % variance[2] = 0
                 /\ exact * exact = square \div variance[2]
    IN  IF total.count < 2 THEN 0
        ELSE IF below /\ whole /\ exact > 0 THEN exact - 1
        ELSE exact

\* ------------------------------------------------------ argmin: calcSplits
getTotalVariance(aggrA, aggrB) ==
    IF aggrA.sd = NaN \/ aggrB.sd = NaN THEN NaN
    ELSE (10000 * (aggrA.count * aggrA.sd + aggrB.count * aggrB.sd))
             \div (10000 * (aggrA.count + aggrB.count) + 1)

\* getTotalVariance( belowSplitAggr, aboveSplitAggr ) * 1.05
Cost(below, above) ==
    LET v == getTotalVariance(below, above)
    IN  IF v = NaN THEN NaN ELSE (v * 105) \div 100

\* Accepted without the test of line 203
AcceptedLowerUnmeasured(below, above, mbs, rise) ==
    /\ below.count >= mbs
    /\ above.count >= mbs
    /\ (above.max - above.min) * Scale > rise

\* Accepted without the tests of lines 198-199
AcceptedAnySize(below, above, mbs, rise) ==
    /\ (below.max - below.min) * Scale > rise
    /\ (above.max - above.min) * Scale > rise

\* both partitions are large enough and wide enough (lines 198-204)
Accepted(below, above, mbs, rise) ==
    /\ below.count >= mbs
    /\ above.count >= mbs
    /\ (below.max - below.min) * Scale > rise
    /\ (above.max - above.min) * Scale > rise

\* the for-loop of argmin from index split on; the value of cut after it.
\* negFrom: the first index at which the rounded M2 of aboveSplitAggr is
\* below 0.  lt: the indices at which tmp < best holds if the two are Close.
RECURSIVE argminScan(_, _, _, _, _, _, _, _, _, _, _)
argminScan(col, mbs, rise, split, max, below, above, best, c, negFrom, lt) ==
    IF split >= max THEN c
    ELSE LET value == At(col, split)
             b == numInc(below, value, FALSE)
             a == numDec(above, value, split >= negFrom)
             tmp == Cost(b, a)
             better == /\ Accepted(b, a, mbs, rise)
                       /\ LessRounded(tmp, best, split \in lt)
         IN  argminScan(col, mbs, rise, split + 1, max, b, a,
                        IF better THEN tmp ELSE best,
                        IF better THEN split ELSE c, negFrom, lt)

\* argmin( min, max ) over the column col; undefined + 1 is NaN
argminOf(col, mbs, rise, min, max, negFrom, lt) ==
    LET c == IF (max - min) > (2 * mbs)
             THEN argminScan(col, mbs, rise, min, max, getStdDev(col, 0, 0),
                             getStdDev(col, min, Len(col)),
                             getStdDev(col, min, Len(col)).sd, Undefined,
                             negFrom, lt)
             ELSE Undefined
    IN  IF c = Undefined THEN NaN ELSE c + 1

argmin(min, max, negFrom, lt) ==
    argminOf(lastCol, minBinSize, minRise, min, max, negFrom, lt)

\* the cost tmp computed at every accepted index from split on
RECURSIVE CostsFrom(_, _, _, _, _, _, _, _)
CostsFrom(col, mbs, rise, split, max, below, above, negFrom) ==
    IF split >= max THEN {}
    ELSE LET value == At(col, split)
             b == numInc(below, value, FALSE)
             a == numDec(above, value, split >= negFrom)
         IN  (IF Accepted(b, a, mbs, rise) THEN {<<split, Cost(b, a)>>} ELSE {})
             \cup CostsFrom(col, mbs, rise, split + 1, max, b, a, negFrom)

\* the indices whose cost is Close to a value best can hold when they are
\* reached: the initial best or the cost of an earlier accepted index
CloseSplits(min, max, negFrom) ==
    IF (max - min) > (2 * minBinSize)
    THEN LET costs == CostsFrom(lastCol, minBinSize, minRise, min, max,
                                getStdDev(lastCol, 0, 0),
                                getStdDev(lastCol, min, numRows), negFrom)
             best0 == getStdDev(lastCol, min, numRows).sd
         IN  {p[1] : p \in {q \in costs :
                 \/ Close(q[2], best0)
                 \/ \E r \in costs : r[1] < q[1] /\ Close(q[2], r[2])}}
    ELSE {}

\* the indices at which removing the value leaves aboveSplitAggr with an
\* M2 that is exactly 0 and carries a rounding error
RECURSIVE CancelFrom(_, _, _, _)
CancelFrom(col, split, max, above) ==
    IF split >= max THEN {}
    ELSE LET a == numDec(above, At(col, split), FALSE)
         IN  (IF a.count >= 2 /\ a.count < above.count /\ a.M2 = RInt(0)
                 /\ a.rounded THEN {split} ELSE {})
             \cup CancelFrom(col, split + 1, max, a)

CancelSplits(min, max) ==
    IF (max - min) > (2 * minBinSize)
    THEN CancelFrom(lastCol, min, max, getStdDev(lastCol, min, numRows))
    ELSE {}

\* rows[ j ] + "," + label, as the fields of the line
Line2(j, label) == <<Str(At(rows, j)[1]), Str(At(rows, j)[2]), Str(label)>>

\* the lines written by  for ( j = from; j < to; j++ ) write( rows[j], label )
Lines2(from, to, label) ==
    IF from = NaN \/ from = Undefined \/ to = NaN \/ to <= from THEN <<>>
    ELSE [k \in 1..(to - from) |-> Line2(from + k - 1, label)]

\* readInput, initValues: rows[ 0 ].length of an empty table throws
InitValues ==
    /\ pc2 = "start"
    /\ IF numRows = 0
       THEN pc2' = "crashed" /\ UNCHANGED minRise
       ELSE /\ pc2' = "header"
            /\ \E below \in BOOLEAN : minRise' = minRiseOf(lastCol, below)
    /\ UNCHANGED <<rows, i, cut, prevCut, out2>>
    /\ UNCHANGED pipe3Vars
    /\ UNCHANGED <<sortVars, accVars>>

\* lines 225-229: the attribute names
ArgminHeader ==
    /\ pc2 = "header"
    /\ out2' = Append(out2, attributes)
    /\ pc2' = "loop"
    /\ UNCHANGED <<rows, minRise, i, cut, prevCut>>
    /\ UNCHANGED pipe3Vars
    /\ UNCHANGED <<sortVars, accVars>>

\* lines 237-252, one iteration whose if-branch is taken
ArgminCall ==
    /\ pc2 = "loop"
    /\ Less(i, numRows)
    /\ (numRows - i) > minBinSize
    /\ \E negFrom \in CancelSplits(i, numRows) \cup {numRows} :
       \E lt \in SUBSET CloseSplits(i, numRows, negFrom) :
          LET c == argmin(i, numRows, negFrom, lt)
          IN  /\ prevCut' = cut
              /\ cut' = c
              /\ out2' = out2 \o Lines2(i, c, c)
              /\ i' = IF c = NaN THEN NaN ELSE (c - 1) + 1
    /\ UNCHANGED <<rows, minRise, pc2>>
    /\ UNCHANGED pipe3Vars
    /\ UNCHANGED <<sortVars, accVars>>

\* lines 237-238, one iteration whose if-branch is skipped
ArgminSkip ==
    /\ pc2 = "loop"
    /\ Less(i, numRows)
    /\ ~((numRows - i) > minBinSize)
    /\ i' = i + 1
    /\ UNCHANGED <<rows, minRise, pc2, cut, prevCut, out2>>
    /\ UNCHANGED pipe3Vars
    /\ UNCHANGED <<sortVars, accVars>>

\* lines 255-259: the rows from prevCut on, tagged numRows
ArgminTail ==
    /\ pc2 = "loop"
    /\ ~Less(i, numRows)
    /\ out2' = out2 \o Lines2(prevCut, numRows, numRows)
    /\ pc2' = "done"
    /\ UNCHANGED <<rows, minRise, i, cut, prevCut>>
    /\ UNCHANGED pipe3Vars
    /\ UNCHANGED <<sortVars, accVars>>

\* ------------------------------------------------------------ Pipe3: table
\* dataSet: cols is the index of the last column, c of the one before it,
\* rows the index of the last row, enough = rows ** 0.5
tableCols == Len(At(data, 0)) - 1
tableC == tableCols - 1
tableRows == Len(data) - 1

\* d > input.enough, for an integer d
MoreThanEnough(d) == d > 0 /\ d * d > tableRows

\* readInput: the lines of stdin but the first and the (empty) last
linesRead == IF Len(out2) <= 1 THEN <<>> ELSE Tail(out2)
attributes3 == IF out2 = <<>> THEN <<>> ELSE At(out2, 0)

Defined(k) == k >= 0 /\ k < Len(data)

\* band( input, low, high ) where data[ low ] and data[ high ] exist
band(lo, hi) ==
    IF lo = 1 THEN Dots \o At(At(data, hi), tableC)
    ELSE At(At(data, lo), tableC) \o Dots \o At(At(data, hi), tableC)

\* the loop of mark( input, lo, hi ) with the label b
marked(lo, hi, b) ==
    [k \in 1..Len(data) |->
        IF lo <= k - 1 /\ k - 1 <= hi
        THEN [f \in 1..Len(data[k]) |->
                 IF f = tableCols + 1 THEN b ELSE data[k][f]]
        ELSE data[k]]

\* lines 109-113: new table, readInput (dataSet reads data[ 0 ].length),
\* the banner on stderr, and the call cuts( csv, 0, csv.rows, "|.. " )
Pipe3Read ==
    /\ pc3 = "wait"
    /\ pc2 \in {"done", "crashed"}
    /\ IF linesRead = <<>>
       THEN /\ pc3' = "crashed"
            /\ UNCHANGED <<data, low, depth, err3>>
       ELSE /\ data' = linesRead
            /\ err3' = Append(err3, [pre |-> -1, text |-> At(attributes3, Len(At(linesRead, 0)) - 2)])
            /\ low' = 0
            /\ depth' = 0
            /\ pc3' = "cuts"
    /\ UNCHANGED <<rows, minRise, pc2, i, cut, prevCut, out2, out3>>
    /\ UNCHANGED <<sortVars, accVars>>

\* the depth up to which the calls of cuts are counted.  A recursion that
\* ends passes a larger low with every call and so is less than Len( data )
\* + 2 <= 2 * MaxRows + 2 calls deep; one that is deeper goes on until the
\* call stack is full, at a depth the program does not fix.
MaxDepth == 2 * MaxRows + 2

\* lines 66-76: one call of cuts, up to its recursive call or to line 77.
\* The trace line is written first.  Of the calls at MaxDepth or deeper
\* neither the number nor the trace lines are kept; any of them can be the
\* one for which the stack has no room (RangeError in the write of line 69).
Pipe3Cuts ==
    /\ pc3 = "cuts"
    /\ \/ /\ depth = MaxDepth
          /\ pc3' = "crashed"
          /\ UNCHANGED <<low, depth, err3>>
       \/ IF ~Defined(low)
          THEN /\ pc3' = "crashed"
               /\ UNCHANGED <<low, depth, err3>>
          ELSE LET c == Number(At(At(data, low), tableCols))
                   recurse == /\ MoreThanEnough(tableRows - low)
                              /\ c # NaN /\ c # 0
                              /\ c <= tableRows
                   line == [pre |-> depth, text |-> At(At(data, low), tableC)]
               IN  /\ err3' = IF depth < MaxDepth THEN Append(err3, line)
                               ELSE err3
                   /\ low' = IF recurse THEN c + 1 ELSE low
                   /\ depth' = IF recurse /\ depth < MaxDepth THEN depth + 1
                                ELSE depth
                   /\ pc3' = IF recurse THEN "cuts" ELSE "mark1"
    /\ UNCHANGED <<rows, minRise, pc2, i, cut, prevCut, out2, data, out3>>
    /\ UNCHANGED <<sortVars, accVars>>

\* line 77: mark( input, 1, low - 1 ); band writes to stdout, then reads
\* data[ low - 1 ]
Pipe3MarkLower ==
    /\ pc3 = "mark1"
    /\ out3' = Append(out3, <<Word("band")>>)
    /\ IF ~Defined(low - 1)
       THEN pc3' = "crashed" /\ UNCHANGED data
       ELSE pc3' = "mark2" /\ data' = marked(1, low - 1, band(1, low - 1))
    /\ UNCHANGED <<rows, minRise, pc2, i, cut, prevCut, out2, low, depth, err3>>
    /\ UNCHANGED <<sortVars, accVars>>

\* line 78: mark( input, low, high )
Pipe3MarkUpper ==
    /\ pc3 = "mark2"
    /\ out3' = Append(out3, <<Word("band")>>)
    /\ data' = marked(low, tableRows, band(low, tableRows))
    /\ pc3' = "header"
    /\ UNCHANGED <<rows, minRise, pc2, i, cut, prevCut, out2, low, depth, err3>>
    /\ UNCHANGED <<sortVars, accVars>>

\* lines 116-120: attributes[ 0 ] .. attributes[ c ], then "!klass"
Pipe3Header ==
    /\ pc3 = "header"
    /\ out3' = Append(out3, [f \in 1..(tableC + 2) |->
                              IF f = tableC + 2 THEN Word("!klass")
                              ELSE attributes3[f]])
    /\ pc3' = "print"
    /\ UNCHANGED <<rows, minRise, pc2, i, cut, prevCut, out2, data, low, depth, err3>>
    /\ UNCHANGED <<sortVars, accVars>>

\* lines 121-127: for( i = 0; i < csv.rows; i++ ) the fields 0..cols of row i
Pipe3Print ==
    /\ pc3 = "print"
    /\ out3' = out3 \o [k \in 1..tableRows |->
                            [f \in 1..(tableCols + 1) |-> data[k][f]]]
    /\ pc3' = "done"
    /\ UNCHANGED <<rows, minRise, pc2, i, cut, prevCut, out2, data, low, depth, err3>>
    /\ UNCHANGED <<sortVars, accVars>>

\* ------------------------------------------------------------------ inputs
\* the target values: 0..MaxVal and one value far from them
Values == [k \in 1..(MaxVal + 2) |-> IF k = MaxVal + 2 THEN Far ELSE k - 1]

RECURSIVE Repeat(_, _)
Repeat(v, k) == IF k <= 0 THEN <<>> ELSE <<v>> \o Repeat(v, k - 1)

RECURSIVE Ascending(_, _)
Ascending(counts, k) ==
    IF k > Len(Values) THEN <<>>
    ELSE Repeat(Values[k], counts[k]) \o Ascending(counts, k + 1)

RECURSIVE SumTo(_, _)
SumTo(counts, k) == IF k = 0 THEN 0 ELSE counts[k] + SumTo(counts, k - 1)

\* every ascending column of at most MaxRows target values
SortedColumns ==
    {Ascending(counts, 1) :
        counts \in {cs \in [1..Len(Values) -> 0..MaxRows] :
                       SumTo(cs, Len(Values)) <= MaxRows}}

\* the table whose row k has id k and target col[k + 1]
TableOf(col) == [k \in 1..Len(col) |-> <<k - 1, col[k]>>]

\* ------------------------------------------------------------ sortlastcol
\* the last column of a row
Key(row) == row[Len(row)]

\* vals with the rows at indices a and b exchanged
Swap(v, a, b) ==
    [k \in 1..Len(v) |-> IF k = a + 1 THEN At(v, b)
                         ELSE IF k = b + 1 THEN At(v, a) ELSE v[k]]

\* merge without its last loop
RECURSIVE mergeLeftOnly(_, _, _, _)
mergeLeftOnly(left, right, a, b) ==
    IF a < Len(left) /\ b < Len(right)
    THEN IF Key(At(left, a)) <= Key(At(right, b))
         THEN <<At(left, a)>> \o mergeLeftOnly(left, right, a + 1, b)
         ELSE <<At(right, b)>> \o mergeLeftOnly(left, right, a, b + 1)
    ELSE IF a < Len(left) THEN SubSeq(left, a + 1, Len(left))
    ELSE <<>>

\* merge: the array vals after merging left and right from (i, j) on
RECURSIVE merge(_, _, _, _)
merge(left, right, a, b) ==
    IF a < Len(left) /\ b < Len(right)
    THEN IF Key(At(left, a)) <= Key(At(right, b))
         THEN <<At(left, a)>> \o merge(left, right, a + 1, b)
         ELSE <<At(right, b)>> \o merge(left, right, a, b + 1)
    ELSE IF a < Len(left) THEN SubSeq(left, a + 1, Len(left))
    ELSE SubSeq(right, b + 1, Len(right))

RECURSIVE mergeSort(_)
mergeSort(v) ==
    LET n == Len(v)
        mid == n \div 2
    IN  IF n < 2 THEN v
        ELSE merge(mergeSort(SubSeq(v, 1, mid)),
                   mergeSort(SubSeq(v, mid + 1, n)), 0, 0)

\* bubbleSort: the loops from (a, b) on
RECURSIVE bubbleFrom(_, _, _)
bubbleFrom(v, a, b) ==
    LET n == Len(v)
    IN  IF ~(a < n - 1) THEN v
        ELSE IF ~(b < n - a - 1) THEN bubbleFrom(v, a + 1, 0)
        ELSE IF Key(At(v, b)) > Key(At(v, b + 1))
             THEN bubbleFrom(Swap(v, b, b + 1), a, b + 1)
             ELSE bubbleFrom(v, a, b + 1)

bubbleSort(v) == bubbleFrom(v, 0, 0)

\* selectionSort: the inner loop, the index min after scanning from b on
RECURSIVE selectMin(_, _, _)
selectMin(v, min, b) ==
    IF ~(b < Len(v)) THEN min
    ELSE IF Key(At(v, b)) < Key(At(v, min)) THEN selectMin(v, b, b + 1)
    ELSE selectMin(v, min, b + 1)

RECURSIVE selectionFrom(_, _)
selectionFrom(v, a) ==
    IF ~(a < Len(v) - 1) THEN v
    ELSE selectionFrom(Swap(v, selectMin(v, a, a + 1), a), a + 1)

selectionSort(v) == selectionFrom(v, 0)

isSorted(v) ==
    \A k \in 1..(Len(v) - 1) : ~(Key(At(v, k)) < Key(At(v, k - 1)))

\* bogoSort: one pass of the for-loop, js[a + 1] = Math.floor( random * a )
RECURSIVE shuffleFrom(_, _, _)
shuffleFrom(v, a, js) ==
    IF ~(a < Len(v)) THEN v
    ELSE shuffleFrom(Swap(v, a, js[a + 1]), a + 1, js)

\* the values Math.floor( Math.random() * a ) can take, for each index a
RandomIndices(n) ==
    {js \in [1..n -> 0..(IF n < 2 THEN 0 ELSE n - 2)] :
        \A k \in 1..n : js[k] = 0 \/ js[k] < k - 1}

header1 == <<Word("id"), Word("dom")>>

\* readVals: the header goes to stdout, then processVals runs
ReadVals ==
    /\ spc = "read"
    /\ sout' = Append(sout, header1)
    /\ vals' = input
    /\ spc' = "process"
    /\ UNCHANGED <<input, args, serr>>
    /\ UNCHANGED <<pipeVars, accVars>>

\* processVals lines 52-53 and 66-67: argsErr, process.exit( -1 )
ArgsErr ==
    /\ spc = "process"
    /\ \/ Len(args) > 1
       \/ Len(args) = 1 /\ args[1] \notin {"-m", "-b", "-s", "-bogo"}
    /\ serr' = serr \o <<"Invalid command line args", "-m: merge sort (default)",
                         "-b: bubble sort", "-s: selection sort">>
    /\ spc' = "exit-1"
    /\ UNCHANGED <<vals, input, args, sout>>
    /\ UNCHANGED <<pipeVars, accVars>>

SortMerge ==
    /\ spc = "process"
    /\ Len(args) = 0 \/ (Len(args) = 1 /\ args[1] = "-m")
    /\ vals' = mergeSort(vals)
    /\ spc' = "print"
    /\ UNCHANGED <<input, args, sout, serr>>
    /\ UNCHANGED <<pipeVars, accVars>>

SortBubble ==
    /\ spc = "process"
    /\ Len(args) = 1 /\ args[1] = "-b"
    /\ vals' = bubbleSort(vals)
    /\ spc' = "print"
    /\ UNCHANGED <<input, args, sout, serr>>
    /\ UNCHANGED <<pipeVars, accVars>>

SortSelection ==
    /\ spc = "process"
    /\ Len(args) = 1 /\ args[1] = "-s"
    /\ vals' = selectionSort(vals)
    /\ spc' = "print"
    /\ UNCHANGED <<input, args, sout, serr>>
    /\ UNCHANGED <<pipeVars, accVars>>

\* bogoSort is entered
SortBogo ==
    /\ spc = "process"
    /\ Len(args) = 1 /\ args[1] = "-bogo"
    /\ spc' = "bogo"
    /\ UNCHANGED <<vals, input, args, sout, serr>>
    /\ UNCHANGED <<pipeVars, accVars>>

\* one iteration of the while-loop of bogoSort
BogoPass ==
    /\ spc = "bogo"
    /\ ~isSorted(vals)
    /\ \E js \in RandomIndices(Len(vals)) : vals' = shuffleFrom(vals, 0, js)
    /\ UNCHANGED <<input, args, spc, sout, serr>>
    /\ UNCHANGED <<pipeVars, accVars>>

\* bogoSort returns
BogoReturn ==
    /\ spc = "bogo"
    /\ isSorted(vals)
    /\ spc' = "print"
    /\ UNCHANGED <<vals, input, args, sout, serr>>
    /\ UNCHANGED <<pipeVars, accVars>>

\* printVals: one line per row
PrintVals ==
    /\ spc = "print"
    /\ sout' = sout \o [k \in 1..Len(vals) |->
                            [f \in 1..Len(vals[k]) |-> Str(vals[k][f])]]
    /\ spc' = "done"
    /\ UNCHANGED <<vals, input, args, serr>>
    /\ UNCHANGED <<pipeVars, accVars>>

\* every table of at most MaxSort rows with keys 0..MaxKey; the id of a row
\* is its place in the input
SortInputs ==
    UNION {{[k \in 1..n |-> <<k - 1, keys[k]>>] : keys \in [1..n -> 0..MaxKey]} :
              n \in 0..MaxSort}

ArgLists == {<<>>, <<"-m">>, <<"-b">>, <<"-s">>, <<"-bogo">>, <<"-x">>,
             <<"-m", "-b">>}

\* no accumulator is being driven on its own
AccIdle == accum = NewAggr /\ held = <<>> /\ lastOp = "idle"

PipeIdle ==
    /\ rows = <<>> /\ pc2 = "idle" /\ i = 0 /\ cut = 0 /\ prevCut = Undefined
    /\ minRise = Undefined
    /\ out2 = <<>> /\ pc3 = "idle" /\ data = <<>> /\ low = 0 /\ depth = 0
    /\ err3 = <<>> /\ out3 = <<>>

SortInit ==
    /\ input \in SortInputs
    /\ args \in ArgLists
    /\ vals = <<>>
    /\ spc = "read"
    /\ sout = <<>>
    /\ serr = <<>>
    /\ PipeIdle
    /\ AccIdle

SortNext ==
    \/ ReadVals
    \/ ArgsErr
    \/ SortMerge
    \/ SortBubble
    \/ SortSelection
    \/ SortBogo
    \/ BogoPass
    \/ BogoReturn
    \/ PrintVals

SortSpec == SortInit /\ [][SortNext]_vars

SortIdle ==
    /\ vals = <<>> /\ input = <<>> /\ args = <<>>
    /\ spc = "idle" /\ sout = <<>> /\ serr = <<>>

\* ------------------------------------------------- the accumulator alone
\* numInc and numDec called in any order on one accumulator that starts as
\* getStdDev creates it.  numDec is called with a value that is held or,
\* when nothing was ever added, with any value; an accumulator whose count
\* has gone below 0 is driven no further.
AccValues == {Values[k] : k \in 1..Len(Values)}

\* the largest number of values added to the accumulator
MaxHeld == 4

AccInc(value) ==
    /\ accum.count >= 0
    /\ accum.count < MaxHeld
    /\ \E neg \in IncSigns(accum) : accum' = numInc(accum, value, neg)
    /\ held' = [held EXCEPT ![value] = @ + 1]
    /\ lastOp' = "numInc"
    /\ UNCHANGED <<pipeVars, sortVars>>

AccDec(value) ==
    /\ accum.count >= 0
    /\ held[value] > 0 \/ accum.count = 0
    /\ \E neg \in DecSigns(accum) : accum' = numDec(accum, value, neg)
    /\ held' = [held EXCEPT ![value] = IF @ > 0 THEN @ - 1 ELSE @]
    /\ lastOp' = "numDec"
    /\ UNCHANGED <<pipeVars, sortVars>>

AccInit ==
    /\ accum = NewAggr
    /\ held = [v \in AccValues |-> 0]
    /\ lastOp = "getStdDev"
    /\ PipeIdle
    /\ SortIdle

AccNext ==
    \/ \E value \in AccValues : AccInc(value)
    \/ \E value \in AccValues : AccDec(value)

AccSpec == AccInit /\ [][AccNext]_vars

Init ==
    /\ rows \in {TableOf(col) : col \in SortedColumns}
    /\ pc2 = "start"
    /\ i = 0
    /\ cut = 0
    /\ prevCut = Undefined
    /\ minRise = Undefined
    /\ out2 = <<>>
    /\ pc3 = "wait"
    /\ data = <<>>
    /\ low = 0
    /\ depth = 0
    /\ err3 = <<>>
    /\ out3 = <<>>
    /\ SortIdle
    /\ AccIdle

Next ==
    \/ InitValues
    \/ ArgminHeader
    \/ ArgminCall
    \/ ArgminSkip
    \/ ArgminTail
    \/ Pipe3Read
    \/ Pipe3Cuts
    \/ Pipe3MarkLower
    \/ Pipe3MarkUpper
    \/ Pipe3Header
    \/ Pipe3Print

Spec == Init /\ [][Next]_vars

\* =================================================================== claims
\* floor( sqrt( n ) ), stated without the model's square root
FloorSqrt(n) == CHOOSE m \in 0..n : m * m <= n /\ (m + 1) * (m + 1) > n

SetMax(S) == CHOOSE x \in S : \A y \in S : y <= x
SetMin(S) == CHOOSE x \in S : \A y \in S : x <= y

\* largest minus smallest target value among the rows a..b
RangeOfRows(a, b) ==
    LET S == {At(lastCol, k) : k \in a..b}
    IN  SetMax(S) - SetMin(S)

\* the data lines argmin wrote, their row indices and their tags
DataLines2 == IF out2 = <<>> THEN <<>> ELSE Tail(out2)
RowIndex2(k) == Number(DataLines2[k][1])
Tag2(k) == Number(DataLines2[k][3])
Tags2 == {Tag2(k) : k \in 1..Len(DataLines2)}

\* the label field of row k of Pipe3's table, and its target field
Label3(k) == At(At(data, k), tableCols)
Dom3(k) == At(At(data, k), tableC)
IsBand(text) == \E j \in 1..Len(text) : text[j].t = "dots"

\* C1: for a sorted input of n >= 1 rows argmin writes each row index 0..n-1
\* exactly once and in ascending order (the partitions are contiguous,
\* disjoint and cover [0, n-1]), so the output has exactly n data rows.
C1_EachRowOnceInOrder ==
    (pc2 = "done" /\ numRows >= 1) =>
        /\ Len(DataLines2) = numRows
        /\ \A k \in 1..numRows : RowIndex2(k) = k - 1

\* C2: Pipe3's stdout is exactly the header with "!klass" appended followed by
\* one line per input row, the row's fields in order and then its band label.
C2_StdoutIsHeaderAndLabelledRows ==
    pc3 = "done" =>
        /\ Len(out3) = Len(linesRead) + 1
        /\ out3[1] = Append(attributes3, Word("!klass"))
        /\ \A k \in 1..Len(linesRead) :
              /\ Len(out3[k + 1]) = Len(linesRead[k])
              /\ \A f \in 1..(Len(linesRead[k]) - 1) :
                    out3[k + 1][f] = linesRead[k][f]
              /\ IsBand(out3[k + 1][Len(linesRead[k])])

\* argmin found no split: it tagged every one of the n >= 1 rows with n
NoSplit ==
    /\ pc2 = "done"
    /\ numRows >= 1
    /\ Len(DataLines2) = numRows
    /\ \A k \in 1..numRows : RowIndex2(k) = k - 1 /\ Tag2(k) = numRows

\* C3: when no split is found Pipe3 ends without an error and every row
\* 0..n-1 carries one and the same band label.
C3_NoSplitLabelsOneBand ==
    NoSplit =>
        /\ pc3 # "crashed"
        /\ pc3 = "done" =>
              \A k \in 0..tableRows : IsBand(Label3(k)) /\ Label3(k) = Label3(0)

\* argmin( prevCut, numRows ) has returned the cut held in cut
CutReturned == pc2 \in {"loop", "done"} /\ prevCut # Undefined /\ cut # NaN

\* C4 as claimed: for every cut argmin(min, numRows) returns, [min, cut-1] and
\* [cut, numRows-1] both hold at least minBinSize rows and both have a range,
\* over the rows actually in them, strictly greater than minRise.
C4_BothPartitionsLargeAndWide ==
    CutReturned =>
        /\ cut - prevCut >= FloorSqrt(numRows)
        /\ numRows - cut >= FloorSqrt(numRows)
        /\ RangeOfRows(prevCut, cut - 1) * Scale > minRise
        /\ RangeOfRows(cut, numRows - 1) * Scale > minRise

\* C4 as amended: for every cut argmin(min, numRows) returns, [min, cut-1]
\* holds at least minBinSize rows and has a range strictly greater than
\* minRise; the count of the upper accumulator (numRows - cut, but 1 when
\* cut = numRows) is at least minBinSize, and the range of all of
\* [min, numRows-1] is strictly greater than minRise.
C4_LowerExactUpperAsAccumulated ==
    CutReturned =>
        /\ cut - prevCut >= FloorSqrt(numRows)
        /\ RangeOfRows(prevCut, cut - 1) * Scale > minRise
        /\ (IF cut = numRows THEN 1 ELSE numRows - cut) >= FloorSqrt(numRows)
        /\ RangeOfRows(prevCut, numRows - 1) * Scale > minRise

\* a cut was returned whose upper partition is narrower than minRise
C4_Witness ==
    /\ CutReturned
    /\ cut < numRows
    /\ RangeOfRows(cut, numRows - 1) * Scale <= minRise
    /\ minRise > 0

\* C5: in argmin's output every partition but the final remainder (the rows
\* tagged n) has at least floor(sqrt(n)) rows.
C5_PartitionsAtLeastMinBinSize ==
    pc2 = "done" =>
        \A t \in Tags2 \ {numRows} :
            Cardinality({k \in 1..Len(DataLines2) : Tag2(k) = t})
                >= FloorSqrt(numRows)

\* a partition of exactly floor(sqrt(n)) = 3 rows was written
C5_Witness ==
    /\ pc2 = "done"
    /\ FloorSqrt(numRows) >= 3
    /\ \E t \in Tags2 \ {numRows} :
          Cardinality({k \in 1..Len(DataLines2) : Tag2(k) = t})
              = FloorSqrt(numRows)

\* C6: after labelling, the rows of the last partition [low, n-1] carry the
\* open-above label "<target value at low>..".
C6_LastBandOpenAbove ==
    pc3 = "done" =>
        \A k \in low..tableRows : Label3(k) = Dom3(low) \o Dots

\* C7: after labelling a table in which a split was found, every row of the
\* lowest band, row 0 included, carries "..<target value at the band's last
\* row>", and no row keeps the numeric cut index.
C7_FirstBandCoversRowZero ==
    (pc3 = "done" /\ low > 0) =>
        /\ \A k \in 0..(low - 1) : Label3(k) = Dots \o Dom3(low - 1)
        /\ \A k \in 0..tableRows : Number(Label3(k)) = NaN

\* the partitions argmin tagged: the maximal runs of lines with one tag
PartitionCount == Cardinality(Tags2)
BandsWritten == {Label3(k) : k \in {j \in 0..tableRows : IsBand(Label3(j))}}

\* C8: when argmin yields k >= 3 partitions the labelled table has
\* k distinct bands, and every interior partition [plo, phi] is labelled
\* "<target value at plo>..<target value at phi>".
C8_OneBandPerPartition ==
    (pc3 = "done" /\ PartitionCount >= 3) =>
        /\ Cardinality(BandsWritten) = PartitionCount
        /\ \A t \in Tags2 :
              LET P == {k \in 0..tableRows : Tag2(k + 1) = t}
                  plo == SetMin(P)
                  phi == SetMax(P)
              IN  (plo > 0 /\ phi < tableRows) =>
                      \A k \in P : Label3(k) = Dom3(plo) \o Dots \o Dom3(phi)

\* equal keys keep the order they had in the input
Stable(v) ==
    \A a, b \in 1..Len(v) :
        (a < b /\ Key(v[a]) = Key(v[b])) => v[a][1] < v[b][1]

\* C9: for each of the strategies default, -m, -b and -s, rows with equal
\* last-column values leave sortlastcol in the order they came in.
C9_EverySelectableSortStable ==
    (spc \in {"print", "done"} /\ args \in {<<>>, <<"-m">>, <<"-b">>, <<"-s">>})
        => Stable(vals)

\* C10: after any of the sorts (bogoSort when it returns) the array is a
\* permutation of the input rows in non-decreasing order of the last column.
C10_SortedPermutation ==
    spc \in {"print", "done"} =>
        /\ Len(vals) = Len(input)
        /\ \A r \in 1..Len(input) :
              Cardinality({k \in 1..Len(vals) : vals[k] = input[r]}) = 1
        /\ \A k \in 1..(Len(vals) - 1) : Key(vals[k]) <= Key(vals[k + 1])

\* a sort has reordered an input with equal keys in it
C10_Witness ==
    /\ spc = "done"
    /\ vals # input
    /\ \E a, b \in 1..Len(input) : a # b /\ Key(input[a]) = Key(input[b])


\* ---------------------------------------------------------------- argmin()
\* argmin( prevCut, numRows ) has returned; cut holds what it returned
CallReturned == pc2 \in {"loop", "done"} /\ prevCut # Undefined

\* the accepted indices of the scan of argmin( min, numRows ), each with its
\* scaled cost tmp; negFrom as in argminScan
Candidates(min, negFrom) ==
    IF (numRows - min) > (2 * minBinSize)
    THEN CostsFrom(lastCol, minBinSize, minRise, min, numRows,
                   getStdDev(lastCol, 0, 0), getStdDev(lastCol, min, numRows),
                   negFrom)
    ELSE {}

\* C11: whenever some index of the scan clears the size and the range
\* thresholds argmin returns the accepted index (plus one) of lowest scaled
\* cost, the leftmost one when costs tie; it reports "no split" only when the
\* range is too small or no index is accepted.  (Stated for some rounding
\* of M2 the scan can have met: a NaN cost is below no other.)
C11_LowestCostAcceptedReturned ==
    CallReturned =>
        \E negFrom \in CancelSplits(prevCut, numRows) \cup {numRows} :
            LET costs == Candidates(prevCut, negFrom)
            IN  /\ costs # {} =>
                      /\ cut # NaN
                      /\ \E p \in costs :
                            /\ p[1] = cut - 1
                            /\ p[2] # NaN
                            /\ \A q \in costs :
                                  q[2] # NaN =>
                                      /\ p[2] <= q[2]
                                      /\ (q[2] = p[2] => p[1] <= q[1])
                /\ cut = NaN => costs = {}

\* ------------------------------------------------------ order of the writes
\* calcSplits has a call of argmin still to make
ArgminCallPending ==
    /\ pc2 \in {"start", "header", "loop"}
    /\ Less(i, numRows)
    /\ (numRows - i) > minBinSize

\* the call cuts( csv, 0, csv.rows, "|.. " ) has not returned
CutsRunning == pc3 \in {"cuts", "mark1", "mark2"}

\* processVals has not reached its call of printVals (line 70): the
\* arguments are not all looked at or the rows not yet sorted
SortRunning == spc \in {"read", "process", "bogo"}

\* C12: no stage writes to stdout before its computation is complete: argmin
\* writes nothing while a call of argmin() is still to come, Pipe3 nothing
\* before cuts() has returned, sortlastcol nothing before the arguments are
\* validated and the rows sorted.
C12_NoOutputBeforeCompletion ==
    /\ ArgminCallPending => out2 = <<>>
    /\ CutsRunning => out3 = <<>>
    /\ SortRunning => sout = <<>>

\* -------------------------------------------------------------- termination
\* the step is an iteration of calcSplits' first loop that calls argmin
CallsArgmin ==
    pc2 = "loop" /\ Less(i, numRows) /\ (numRows - i) > minBinSize

\* the step is a call of cuts that calls cuts again
CutsRecurses == pc3 = "cuts" /\ pc3' = "cuts"

\* C13: the drivers terminate: in calcSplits a split argmin returns moves the
\* lower bound forward by at least minBinSize >= 1 rows and "no split" ends
\* the loop; in Pipe3 every recursive call of cuts has a strictly larger low
\* than its caller, and low never exceeds the index of the last row.
C13_DriversAdvance ==
    [][/\ CallsArgmin =>
              /\ minBinSize >= 1
              /\ i' # NaN => i' >= i + minBinSize
              /\ i' = NaN => ~Less(i', numRows)
       /\ CutsRecurses => (low' > low /\ low' <= tableRows)]_vars

\* ------------------------------------------------------- the accumulator
\* C14: numDec on an accumulator whose count is 1 or 0 is a no-op: count,
\* mean, M2, sd, min and max are unchanged, so count never goes below 0.
C14_DecAtCountAtMostOneIsNoOp ==
    [][(lastOp' = "numDec" /\ accum.count <= 1) =>
           /\ accum'.count = accum.count
           /\ accum'.mean = accum.mean
           /\ accum'.M2 = accum.M2
           /\ accum'.sd = accum.sd
           /\ accum'.min = accum.min
           /\ accum'.max = accum.max
           /\ accum'.count >= 0]_vars

\* C15: in every accumulator state with count < 2 the sd the split cost
\* reads is 0, also after numDec has taken count from 2 to 1.
C15_SdZeroBelowTwo ==
    accum.count < 2 => accum.sd = 0

\* the number of values held, their sum and the sum of their squares
RECURSIVE HeldTotal(_, _)
HeldTotal(k, power) ==
    IF k = 0 THEN 0
    ELSE LET v == Values[k]
         IN  held[v] * (IF power = 0 THEN 1 ELSE IF power = 1 THEN v ELSE v * v)
                 + HeldTotal(k - 1, power)

HeldCount == HeldTotal(Len(Values), 0)
HeldSum == HeldTotal(Len(Values), 1)
HeldSquares == HeldTotal(Len(Values), 2)

\* the mean and the sample variance of the values held, computed directly
MeanHeld == Rat(HeldSum, HeldCount)
VarianceHeld ==
    Rat(HeldCount * HeldSquares - HeldSum * HeldSum,
        HeldCount * (HeldCount - 1))

\* C16 as claimed: after any calls of numInc and numDec, every numDec with a
\* value that is held, that leave count >= 2, mean is the mean of the values
\* held and M2 / (count - 1) their sample variance.
C16_MeanAndVarianceOfHeld ==
    (lastOp \in {"numInc", "numDec"} /\ accum.count >= 2) =>
        /\ HeldCount >= 2
        /\ accum.mean = MeanHeld
        /\ RDivInt(accum.M2, accum.count - 1) = VarianceHeld

\* C16 as amended: if moreover no numDec was called at count 1 (count is
\* then the number of values held), mean is the mean of the values held and
\* M2 / (count - 1) their sample variance, in the arithmetic of real numbers;
\* sd is the root of that variance, or NaN if the variance is 0 and rounding
\* has left the double M2 below 0.
C16_MeanAndVarianceWhileInStep ==
    (lastOp \in {"numInc", "numDec"} /\ accum.count >= 2
        /\ accum.count = HeldCount) =>
        /\ accum.mean = MeanHeld
        /\ RDivInt(accum.M2, accum.count - 1) = VarianceHeld
        /\ accum.sd \in {SqrtFix(VarianceHeld), NaN}
        /\ accum.sd = NaN => (VarianceHeld = RInt(0) /\ accum.rounded)

\* values differing from one another are held after a removal
C16_Witness ==
    /\ lastOp = "numDec"
    /\ accum.count >= 2
    /\ accum.count = HeldCount
    /\ VarianceHeld # RInt(0)
    /\ ~Binary(accum.mean)

\* ------------------------------------------------- argmin and Pipe3 together
\* the first line argmin tagged with n, as an index of Pipe3's table
FirstOfFinalPartition ==
    SetMin({k \in 0..tableRows : Tag2(k + 1) = numRows})

\* C17: when Pipe3 has labelled argmin's output the upper band starts at the
\* first row argmin tagged with n, so every row of argmin's final partition
\* carries the upper band's label and none the lower band's.
C17_UpperBandIsFinalPartition ==
    (pc3 = "done" /\ numRows \in Tags2) =>
        /\ low = FirstOfFinalPartition
        /\ \A k \in FirstOfFinalPartition..tableRows :
              Label3(k) = Label3(tableRows)

=============================================================================
